---------------------------- MODULE Spec2Model ----------------------------
(***************************************************************************)
(* Model of the hourly batch aggregation job of src/main.py:              *)
(* list_eligible_json_files -> download_and_parse_events ->               *)
(* normalize_events -> aggregate_events -> write_hourly_csv_summaries,    *)
(* driven by main().                                                       *)
(*                                                                         *)
(* Data representation                                                     *)
(*   - a blob name is a tuple of one-character strings, so that           *)
(*     str.endswith is computed on the characters;                         *)
(*   - blob.updated and datetime.now() are minutes on one UTC time line;   *)
(*   - a datetime is a record of its wall-clock fields plus its utcoffset  *)
(*     in minutes: [y, mo, d, h, mi, s, us, off].  Two aware datetimes are *)
(*     equal (and hash alike) in Python when they denote the same instant, *)
(*     whatever their offsets: DtEq;                                       *)
(*   - an event_timestamp string is a record of the fields it spells and   *)
(*     the timezone suffix it carries ("Z", "+00:00", "+05:30", ...);      *)
(*   - an exception is a record [kind, about]: the exact class raised and  *)
(*     what its message names.                                             *)
(***************************************************************************)
EXTENDS Integers, Sequences, FiniteSets, TLC

VARIABLES
    pc,           \* position of main(): start, download, normalize, aggregate, write, done, exit, failed
    now,          \* datetime.now(timezone.utc) read by list_eligible_json_files
    lookback,     \* LOOKBACK_HOURS
    listing,      \* bucket.list_blobs(prefix): sequence of [name, updated]
    eligible,     \* eligible_files
    downloaded,   \* contents returned so far by blob.download_as_bytes(), in call order
    all_events,   \* download_and_parse_events: its local all_events
    events,       \* main: events, bound when download_and_parse_events returns
    normalized,   \* normalize_events result
    aggregated,   \* aggregate_events result
    store,        \* the output bucket: set of [path, doc]
    uploads,      \* upload_from_string calls issued so far: [group, path, ok]
    err           \* the exception that ended the run, or NoError

vars == <<pc, now, lookback, listing, eligible, downloaded, all_events,
          events, normalized, aggregated, store, uploads, err>>

-----------------------------------------------------------------------------
(* Bounds of the model *)

\* longest listing drawn for the eligibility filter
MaxBlobs == 2
\* longest listing of a whole run
MaxFiles == 2
\* most events parsed in a whole run
MaxEvents == 3
\* longest event sequence drawn for normalize_events alone
MaxNormEvents == 2
\* longest sequence drawn for aggregate_events alone
MaxAggEvents == 3

\* default of LOOKBACK_HOURS
DefaultLookbackHours == 24

SeqsUpTo(S, n) == UNION {[1..k -> S] : k \in 0..n}

RECURSIVE SumSeq(_)
SumSeq(s) == IF s = <<>> THEN 0 ELSE Head(s) + SumSeq(Tail(s))

RECURSIVE Concat(_)
Concat(ss) == IF ss = <<>> THEN <<>> ELSE Head(ss) \o Concat(Tail(ss))

-----------------------------------------------------------------------------
(* Calendar arithmetic of datetime (proleptic Gregorian) *)

\* days since 1970-01-01 of the civil date y-m-d
DaysFromCivil(y, m, d) ==
    LET yy  == IF m <= 2 THEN y - 1 ELSE y
        era == yy \div 400
        yoe == yy - era * 400
        mp  == (m + 9) % 12
        doy == (153 * mp + 2) \div 5 + d - 1
        doe == yoe * 365 + yoe \div 4 - yoe \div 100 + doy
    IN  era * 146097 + doe - 719468

\* the civil date <<y, m, d>> of a day number
CivilFromDays(z) ==
    LET zz  == z + 719468
        era == zz \div 146097
        doe == zz - era * 146097
        yoe == (doe - doe \div 1460 + doe \div 36524 - doe \div 146096) \div 365
        doy == doe - (365 * yoe + yoe \div 4 - yoe \div 100)
        mp  == (5 * doy + 2) \div 153
        d   == doy - (153 * mp + 2) \div 5 + 1
        m   == IF mp < 10 THEN mp + 3 ELSE mp - 9
        y   == yoe + era * 400 + (IF m <= 2 THEN 1 ELSE 0)
    IN  <<y, m, d>>

\* minutes since the epoch of the UTC instant of an aware datetime (its
\* wall clock minus its utcoffset), seconds and microseconds apart
UtcMinutes(dt) ==
    (DaysFromCivil(dt.y, dt.mo, dt.d) * 24 + dt.h) * 60 + dt.mi - dt.off

\* datetime.__eq__ / __hash__ of aware datetimes: same instant
DtEq(a, b) ==
    /\ UtcMinutes(a) = UtcMinutes(b)
    /\ a.s = b.s
    /\ a.us = b.us

\* the aware datetime with offset zero at a given UTC minute count
UtcDatetime(minutes, s, us) ==
    LET days == minutes \div 1440
        rest == minutes % 1440
        ymd  == CivilFromDays(days)
    IN  [y |-> ymd[1], mo |-> ymd[2], d |-> ymd[3],
         h |-> rest \div 60, mi |-> rest % 60, s |-> s, us |-> us, off |-> 0]

\* dt.astimezone(timezone.utc)
AsUtc(dt) == UtcDatetime(UtcMinutes(dt), dt.s, dt.us)

Pad2(n) == <<n \div 10, n % 10>>
Pad4(n) == <<n \div 1000, (n \div 100) % 10, (n \div 10) % 10, n % 10>>

-----------------------------------------------------------------------------
(* list_eligible_json_files *)

JsonSuffix == <<".", "j", "s", "o", "n">>

\* str.endswith
EndsWith(name, suffix) ==
    /\ Len(name) >= Len(suffix)
    /\ SubSeq(name, Len(name) - Len(suffix) + 1, Len(name)) = suffix

\* cutoff_time = now - timedelta(hours=lookback_hours)
CutoffTime(t, hours) == t - 60 * hours

\* the filter with the boundary instant let through
IsEligibleInclusive(blob, cutoff) ==
    /\ EndsWith(blob.name, JsonSuffix)
    /\ ~(blob.updated > cutoff)

IsEligible(blob, cutoff) ==
    /\ EndsWith(blob.name, JsonSuffix)
    /\ ~(blob.updated >= cutoff)

RECURSIVE FilterEligible(_, _)
FilterEligible(blobs, cutoff) ==
    IF blobs = <<>> THEN <<>>
    ELSE IF IsEligible(Head(blobs), cutoff)
         THEN <<Head(blobs)>> \o FilterEligible(Tail(blobs), cutoff)
         ELSE FilterEligible(Tail(blobs), cutoff)

list_eligible_json_files(blobs, t, hours) ==
    FilterEligible(blobs, CutoffTime(t, hours))

-----------------------------------------------------------------------------
(* Exceptions *)

NoError == [kind |-> "none", about |-> <<>>]
Raise(kind, about) == [kind |-> kind, about |-> <<about>>]
Ok(value) == [ok |-> TRUE, value |-> value, err |-> NoError]
Fail(e) == [ok |-> FALSE, value |-> <<>>, err |-> e]

-----------------------------------------------------------------------------
(* download_and_parse_events: the body of the loop for one blob.  A content *)
(* is what download_as_bytes returned: bytes that are not UTF-8, text that  *)
(* is not JSON, a JSON value that is not a list, or a JSON list.            *)

ParseFile(blob, content) ==
    IF content.kind = "nonutf8" THEN Fail(Raise("UnicodeDecodeError", blob.name))
    ELSE IF content.kind = "badjson" THEN Fail(Raise("JSONDecodeError", blob.name))
    ELSE IF content.kind # "array" THEN Fail(Raise("ValueError", blob.name))
    ELSE Ok(content.events)

\* the loop with each file's events put in front of the earlier ones
ExtendEventsInFront(acc, evs) == evs \o acc

\* for event in events: all_events.append(event)
ExtendEvents(acc, evs) == acc \o evs

-----------------------------------------------------------------------------
(* normalize_events *)

MissingKey == "<missing>"
HasKey(event, key) ==
    IF key = "event_timestamp" THEN event.event_timestamp.kind # "missing"
    ELSE event.event_type # MissingKey

\* str.replace("Z", "+00:00") on the timezone suffix
ReplaceZ(tz) == IF tz = "Z" THEN "+00:00" ELSE tz

\* utcoffset, in minutes, that datetime.fromisoformat reads from a suffix
TzOffset(tz) ==
    CASE tz = "+00:00" -> 0
      [] tz = "+01:00" -> 60
      [] tz = "+05:30" -> 330
      [] tz = "-03:00" -> -180

\* event["event_timestamp"].replace(...) then datetime.fromisoformat: fails on a
\* missing key (KeyError), a value that is no string (AttributeError) and a
\* string that is no ISO timestamp (ValueError)
CanParseTimestamp(event) == event.event_timestamp.kind = "iso"

ParseTimestamp(event) ==
    LET t == event.event_timestamp
    IN  [y |-> t.y, mo |-> t.mo, d |-> t.d, h |-> t.h, mi |-> t.mi,
         s |-> t.s, us |-> t.us, off |-> TzOffset(ReplaceZ(t.tz))]

\* ts.replace(minute=0, second=0, microsecond=0)
TruncateToHour(ts) == [ts EXCEPT !.mi = 0, !.s = 0, !.us = 0]

\* one iteration of the loop: the record appended, or the exception raised
NormalizeOne(event) ==
    IF ~CanParseTimestamp(event) THEN Fail(Raise("ValueError", event))
    ELSE IF ~HasKey(event, "event_type") THEN Fail(Raise("KeyError", "event_type"))
    ELSE Ok([hour |-> TruncateToHour(ParseTimestamp(event)),
             event_type |-> event.event_type])

\* the loop with a bad record skipped instead of raised
RECURSIVE NormalizeSkipping(_, _)
NormalizeSkipping(evs, acc) ==
    IF evs = <<>> THEN Ok(acc)
    ELSE LET r == NormalizeOne(Head(evs))
         IN  IF r.ok THEN NormalizeSkipping(Tail(evs), Append(acc, r.value))
             ELSE NormalizeSkipping(Tail(evs), acc)

RECURSIVE NormalizeFrom(_, _)
NormalizeFrom(evs, acc) ==
    IF evs = <<>> THEN Ok(acc)
    ELSE LET r == NormalizeOne(Head(evs))
         IN  IF r.ok THEN NormalizeFrom(Tail(evs), Append(acc, r.value))
             ELSE Fail(r.err)

normalize_events(evs) == NormalizeFrom(evs, <<>>)

-----------------------------------------------------------------------------
(* aggregate_events: a dict keyed by (hour, event_type), kept in insertion   *)
(* order; a key equal to one already present keeps the object first stored. *)

KeyEq(a, b) == DtEq(a.hour, b.hour) /\ a.event_type = b.event_type

\* the count with the increment lost: aggregation[key] = 1
CountOnce(acc, rec) ==
    IF \E i \in 1..Len(acc) : KeyEq(acc[i], rec)
    THEN acc
    ELSE Append(acc, [hour |-> rec.hour, event_type |-> rec.event_type,
                      total_events |-> 1])

\* aggregation[key] += 1
Count(acc, rec) ==
    IF \E i \in 1..Len(acc) : KeyEq(acc[i], rec)
    THEN [i \in 1..Len(acc) |->
            IF KeyEq(acc[i], rec)
            THEN [acc[i] EXCEPT !.total_events = @ + 1]
            ELSE acc[i]]
    ELSE Append(acc, [hour |-> rec.hour, event_type |-> rec.event_type,
                      total_events |-> 1])

RECURSIVE AggregateFrom(_, _)
AggregateFrom(recs, acc) ==
    IF recs = <<>> THEN acc
    ELSE AggregateFrom(Tail(recs), Count(acc, Head(recs)))

aggregate_events(normalized_events) == AggregateFrom(normalized_events, <<>>)

-----------------------------------------------------------------------------
(* write_hourly_csv_summaries *)

\* records_by_hour.setdefault(hour, []).append(record)
GroupInsert(groups, record) ==
    IF \E i \in 1..Len(groups) : DtEq(groups[i].hour, record.hour)
    THEN [i \in 1..Len(groups) |->
            IF DtEq(groups[i].hour, record.hour)
            THEN [groups[i] EXCEPT !.records = Append(@, record)]
            ELSE groups[i]]
    ELSE Append(groups, [hour |-> record.hour, records |-> <<record>>])

RECURSIVE GroupFrom(_, _)
GroupFrom(recs, groups) ==
    IF recs = <<>> THEN groups
    ELSE GroupFrom(Tail(recs), GroupInsert(groups, Head(recs)))

records_by_hour(aggregated_results) == GroupFrom(aggregated_results, <<>>)

\* f"summaries/{year}/{month}/{day}/hour={hour_str}/summary.csv" with the
\* strftime fields %Y %m %d %H of the datetime object
OutputPath(hour) ==
    <<"summaries", Pad4(hour.y), Pad2(hour.mo), Pad2(hour.d),
      "hour=", Pad2(hour.h), "summary.csv">>

Abs(n) == IF n < 0 THEN -n ELSE n

\* datetime.isoformat()
IsoFormat(dt) ==
    <<Pad4(dt.y), "-", Pad2(dt.mo), "-", Pad2(dt.d), "T",
      Pad2(dt.h), ":", Pad2(dt.mi), ":", Pad2(dt.s)>>
    \o (IF dt.us # 0 THEN <<".", dt.us>> ELSE <<>>)
    \o <<(IF dt.off < 0 THEN "-" ELSE "+"),
         Pad2(Abs(dt.off) \div 60), ":", Pad2(Abs(dt.off) % 60)>>

CsvHeader == <<"hour", "event_type", "total_events">>

CsvRow(r) == <<IsoFormat(r.hour), r.event_type, r.total_events>>

\* the buffer written for one group: header, then one row per record
CsvDocument(records) ==
    <<CsvHeader>> \o [i \in 1..Len(records) |-> CsvRow(records[i])]

\* blob.upload_from_string: create or overwrite
Upsert(st, path, doc) ==
    {e \in st : e.path # path} \cup {[path |-> path, doc |-> doc]}

-----------------------------------------------------------------------------
(* Inputs *)

Name_a_json == <<"a", ".", "j", "s", "o", "n">>
Name_c_json == <<"c", ".", "j", "s", "o", "n">>
Name_b_JSON == <<"b", ".", "J", "S", "O", "N">>
Name_d_bak  == <<"d", ".", "j", "s", "o", "n", ".", "b", "a", "k">>
Name_json   == <<"j", "s", "o", "n">>
Name_b_txt  == <<"b", ".", "t", "x", "t">>

Timestamp(y, mo, d, h, mi, s, us, tz) ==
    [kind |-> "iso", y |-> y, mo |-> mo, d |-> d, h |-> h, mi |-> mi,
     s |-> s, us |-> us, tz |-> tz]

\* a string that is no ISO-8601 timestamp, a value that is no string, no key
NotATimestamp(kind) == [Timestamp(0, 0, 0, 0, 0, 0, 0, "") EXCEPT !.kind = kind]

Event(ts, type) == [event_timestamp |-> ts, event_type |-> type]

\* the eligibility filter alone
FilterNames == {Name_a_json, Name_c_json, Name_b_JSON, Name_d_bak, Name_json, Name_b_txt}
FilterUpdated == {1559, 1560, 1561, 2939, 2940, 2941}
FilterLookbacks == {0, 1, DefaultLookbackHours}

\* a whole run: 10:15Z and 11:15+01:00 are in the same UTC hour, 11:15+01:00
\* and 11:30Z are not but share the wall-clock hour 11, 23:30-03:00 on
\* 2024-02-29 is 02:30Z on 2024-03-01
RunBlobs ==
    {[name |-> Name_a_json, updated |-> 1559],
     [name |-> Name_c_json, updated |-> 1559],
     [name |-> Name_b_txt,  updated |-> 1559]}
RunTimestamps ==
    {Timestamp(2024, 3, 1, 10, 15, 0, 0, "Z"),
     Timestamp(2024, 3, 1, 11, 15, 0, 0, "+01:00"),
     Timestamp(2024, 3, 1, 11, 30, 0, 0, "Z"),
     Timestamp(2024, 2, 29, 23, 30, 0, 0, "-03:00")}
RunEvents ==
    {Event(t, "click") : t \in RunTimestamps}
    \cup {Event(Timestamp(2024, 3, 1, 10, 15, 0, 0, "Z"), "view"),
          Event(NotATimestamp("garbage"), "click"),
          Event(Timestamp(2024, 3, 1, 10, 15, 0, 0, "Z"), MissingKey)}
ArrayOf(evs) == [kind |-> "array", events |-> evs]
RunContents(room) ==
    {[kind |-> k, events |-> <<>>] : k \in {"nonutf8", "badjson", "nonarray"}}
    \cup {ArrayOf(evs) : evs \in SeqsUpTo(RunEvents, room)}
StaleDocument ==
    [path |-> <<"summaries", Pad4(2024), Pad2(3), Pad2(1), "hour=", Pad2(10),
                "summary.csv">>,
     doc |-> <<<<"hour", "event_type", "total_events">>>>]

\* normalize_events alone
NormTimestamps ==
    {Timestamp(2024, dh[1], dh[2], dh[3], sub[1], sub[2], sub[3], tz) :
        dh \in {<<2, 29, 23>>, <<3, 1, 0>>, <<3, 1, 13>>},
        sub \in {<<0, 0, 0>>, <<47, 22, 0>>, <<59, 59, 999999>>},
        tz \in {"Z", "+00:00", "+05:30", "-03:00"}}
    \cup {NotATimestamp(k) : k \in {"garbage", "nonstring", "missing"}}
NormEvents == {Event(t, ty) : t \in NormTimestamps, ty \in {"click", MissingKey}}

\* aggregate_events alone
Hour(y, mo, d, h, off) ==
    [y |-> y, mo |-> mo, d |-> d, h |-> h, mi |-> 0, s |-> 0, us |-> 0, off |-> off]
AggHours ==
    {Hour(2024, 3, 1, 10, 0), Hour(2024, 3, 1, 11, 60),
     Hour(2024, 3, 1, 11, 0), Hour(2024, 3, 1, 10, 330)}
AggInputs == {[hour |-> h, event_type |-> ty] : h \in AggHours, ty \in {"click", "view"}}

-----------------------------------------------------------------------------
(* main *)

\* eligible_files = list_eligible_json_files(...); if not eligible_files: return
ListEligible ==
    /\ pc = "start"
    /\ eligible' = list_eligible_json_files(listing, now, lookback)
    /\ pc' = IF eligible' = <<>> THEN "exit" ELSE "download"
    /\ UNCHANGED <<now, lookback, listing, downloaded, all_events, events,
                   normalized, aggregated, store, uploads, err>>

\* one iteration of the loop of download_and_parse_events; after the last
\* one the function returns all_events to main
Download ==
    /\ pc = "download"
    /\ LET i == Len(downloaded) + 1
           blob == eligible[i]
       IN  \E content \in RunContents(MaxEvents - Len(all_events)) :
             LET r == ParseFile(blob, content)
             IN  /\ downloaded' = Append(downloaded, content)
                 /\ IF r.ok
                    THEN /\ all_events' = ExtendEvents(all_events, r.value)
                         /\ IF i = Len(eligible)
                            THEN pc' = "normalize" /\ events' = all_events'
                            ELSE pc' = "download" /\ events' = events
                         /\ err' = err
                    ELSE /\ pc' = "failed"
                         /\ err' = r.err
                         /\ UNCHANGED <<all_events, events>>
    /\ UNCHANGED <<now, lookback, listing, eligible, normalized, aggregated,
                   store, uploads>>

\* normalized_events = normalize_events(events)
Normalize ==
    /\ pc = "normalize"
    /\ LET r == normalize_events(events)
       IN  IF r.ok
           THEN pc' = "aggregate" /\ normalized' = r.value /\ err' = err
           ELSE pc' = "failed" /\ normalized' = normalized /\ err' = r.err
    /\ UNCHANGED <<now, lookback, listing, eligible, downloaded, all_events,
                   events, aggregated, store, uploads>>

\* aggregated_results = aggregate_events(normalized_events), then the writer
\* groups them; with no group it returns at once
Aggregate ==
    /\ pc = "aggregate"
    /\ aggregated' = aggregate_events(normalized)
    /\ pc' = IF records_by_hour(aggregated') = <<>> THEN "done" ELSE "write"
    /\ UNCHANGED <<now, lookback, listing, eligible, downloaded, all_events,
                   events, normalized, store, uploads, err>>

\* one iteration of the loop of write_hourly_csv_summaries whose upload succeeds
UploadOk ==
    /\ pc = "write"
    /\ LET groups == records_by_hour(aggregated)
           i == Len(uploads) + 1
           path == OutputPath(groups[i].hour)
       IN  /\ uploads' = Append(uploads, [group |-> i, path |-> path, ok |-> TRUE])
           /\ store' = Upsert(store, path, CsvDocument(groups[i].records))
           /\ pc' = IF i = Len(groups) THEN "done" ELSE "write"
    /\ UNCHANGED <<now, lookback, listing, eligible, downloaded, all_events,
                   events, normalized, aggregated, err>>

\* the failing iteration with the exception swallowed: the loop goes on
UploadFailSwallowed ==
    /\ pc = "write"
    /\ LET groups == records_by_hour(aggregated)
           i == Len(uploads) + 1
           path == OutputPath(groups[i].hour)
       IN  /\ uploads' = Append(uploads, [group |-> i, path |-> path, ok |-> FALSE])
           /\ err' = Raise("UploadError", path)
           /\ pc' = IF i = Len(groups) THEN "failed" ELSE "write"
    /\ UNCHANGED <<now, lookback, listing, eligible, downloaded, all_events,
                   events, normalized, aggregated, store>>

\* one iteration whose upload_from_string raises: the exception leaves main
UploadFail ==
    /\ pc = "write"
    /\ LET groups == records_by_hour(aggregated)
           i == Len(uploads) + 1
           path == OutputPath(groups[i].hour)
       IN  /\ uploads' = Append(uploads, [group |-> i, path |-> path, ok |-> FALSE])
           /\ err' = Raise("UploadError", path)
           /\ pc' = "failed"
    /\ UNCHANGED <<now, lookback, listing, eligible, downloaded, all_events,
                   events, normalized, aggregated, store>>

\* object names are unique in a bucket
Listings(blobs, n) ==
    {l \in SeqsUpTo(blobs, n) :
        \A i, j \in 1..Len(l) : i # j => l[i].name # l[j].name}

\* what no stage has touched yet
Untouched ==
    /\ eligible = <<>> /\ downloaded = <<>> /\ all_events = <<>>
    /\ uploads = <<>> /\ err = NoError

\* a whole run
Init ==
    /\ pc = "start"
    /\ now = 3000
    /\ lookback = DefaultLookbackHours
    /\ listing \in Listings(RunBlobs, MaxFiles)
    /\ store \in {{}, {StaleDocument}}
    /\ events = <<>> /\ normalized = <<>> /\ aggregated = <<>>
    /\ Untouched

\* list_eligible_json_files on every listing, clock and lookback window
InitFilter ==
    /\ pc = "start"
    /\ now \in {3000, 3001}
    /\ lookback \in FilterLookbacks
    /\ listing \in Listings([name : FilterNames, updated : FilterUpdated], MaxBlobs)
    /\ store = {}
    /\ events = <<>> /\ normalized = <<>> /\ aggregated = <<>>
    /\ Untouched

\* normalize_events on every event sequence
InitNorm ==
    /\ pc = "normalize"
    /\ now = 3000
    /\ lookback = DefaultLookbackHours
    /\ listing = <<>>
    /\ store = {}
    /\ events \in SeqsUpTo(NormEvents, MaxNormEvents)
    /\ normalized = <<>> /\ aggregated = <<>>
    /\ Untouched

\* aggregate_events on every sequence of normalized events
InitAgg ==
    /\ pc = "aggregate"
    /\ now = 3000
    /\ lookback = DefaultLookbackHours
    /\ listing = <<>>
    /\ store = {}
    /\ events = <<>> /\ aggregated = <<>>
    /\ normalized \in SeqsUpTo(AggInputs, MaxAggEvents)
    /\ Untouched

Next == ListEligible \/ Download \/ Normalize \/ Aggregate \/ UploadOk \/ UploadFail

Spec == Init /\ [][Next]_vars

SpecFilter == InitFilter /\ [][ListEligible]_vars

SpecNorm == InitNorm /\ [][Normalize]_vars

SpecAgg == InitAgg /\ [][Aggregate]_vars

-----------------------------------------------------------------------------
(* The eligibility filter *)

\* the last five characters of a name spell ".json"
SpellsJson(name) ==
    LET n == Len(name)
    IN  /\ n >= 5
        /\ name[n - 4] = "." /\ name[n - 3] = "j" /\ name[n - 2] = "s"
        /\ name[n - 1] = "o" /\ name[n] = "n"

StrictlyBefore(blob) == SpellsJson(blob.name) /\ blob.updated < now - 60 * lookback

\* C5: once list_eligible_json_files has returned, its result is exactly the
\* listed objects whose name ends in ".json" (case-sensitive) and whose
\* last-modified instant is strictly before now - lookback hours, in listing
\* order; an object modified exactly at the cutoff is left out, and no error is
\* raised (an empty listing gives an empty result).
C5_EligibleExactlyStrictlyBefore ==
    pc # "start" =>
        /\ eligible = SelectSeq(listing, StrictlyBefore)
        /\ \A i \in 1..Len(eligible) : eligible[i].updated # now - 60 * lookback
        /\ err = NoError
        /\ (listing = <<>> => eligible = <<>>)

\* a listing with a ".json" object exactly at the cutoff, left out, beside one
\* that is kept
C5_Witness ==
    /\ pc = "download"
    /\ Len(listing) = 2
    /\ Len(eligible) = 1
    /\ \E i \in 1..Len(listing) :
          /\ SpellsJson(listing[i].name)
          /\ listing[i].updated = now - 60 * lookback

-----------------------------------------------------------------------------
(* The aggregator *)

SameKey(a, b) == DtEq(a.hour, b.hour) /\ a.event_type = b.event_type

\* C4: once aggregate_events has returned, no two records share a
\* (hour, event_type) key, every key of the input has exactly one record, every
\* record's key occurs in the input, total_events of a record is the number of
\* input events with its key (so at least 1), and the totals add up to the
\* length of the input.  Hours are compared as instants, as Python compares them.
C4_AggregateCountsKeys ==
    pc # "aggregate" =>
        LET n == Len(aggregated)
            With(k) == {j \in 1..Len(normalized) : SameKey(normalized[j], k)}
        IN  /\ \A i, j \in 1..n : i # j => ~SameKey(aggregated[i], aggregated[j])
            /\ \A j \in 1..Len(normalized) :
                  Cardinality({i \in 1..n : SameKey(aggregated[i], normalized[j])}) = 1
            /\ \A i \in 1..n :
                  /\ aggregated[i].total_events = Cardinality(With(aggregated[i]))
                  /\ aggregated[i].total_events >= 1
            /\ SumSeq([i \in 1..n |-> aggregated[i].total_events]) = Len(normalized)

\* three events, two of one key (written with different offsets) and one of another
C4_Witness ==
    /\ pc # "aggregate"
    /\ Len(normalized) = 3
    /\ Len(aggregated) = 2
    /\ \E i \in 1..2 : aggregated[i].total_events = 2
    /\ \E i, j \in 1..3 :
          /\ SameKey(normalized[i], normalized[j])
          /\ normalized[i].hour.off # normalized[j].hour.off

-----------------------------------------------------------------------------
(* The normalizer *)

\* the event's instant, and the UTC hour it falls in
EventInstant(event) == UtcMinutes(ParseTimestamp(event))
UtcHourOf(event) == UtcDatetime(60 * (EventInstant(event) \div 60), 0, 0)

\* C2: every emitted hour is the event's instant converted to UTC and truncated
\* to the start of its UTC hour: offset zero, minute = second = microsecond = 0,
\* and the greatest UTC hour boundary not later than the instant.
C2_HourIsUtcHourStart ==
    pc = "aggregate" =>
        \A i \in 1..Len(normalized) :
            LET hour == normalized[i].hour
            IN  /\ hour.off = 0
                /\ hour.mi = 0 /\ hour.s = 0 /\ hour.us = 0
                /\ UtcMinutes(hour) <= EventInstant(events[i])
                /\ EventInstant(events[i]) < UtcMinutes(hour) + 60
                /\ hour = UtcHourOf(events[i])

\* the first event that normalize_events cannot normalize
CannotNormalize(event) ==
    \/ event.event_timestamp.kind # "iso"
    \/ event.event_type = MissingKey
FirstOffending(evs) ==
    CHOOSE i \in 1..Len(evs) :
        /\ CannotNormalize(evs[i])
        /\ \A j \in 1..(i - 1) : ~CannotNormalize(evs[j])

\* C7: an unparseable event_timestamp, a missing event_timestamp and a missing
\* event_type all end normalize_events with the same kind of error, one that
\* names the offending record, and nothing normalized is returned.
C7_OneValidationErrorKind ==
    (pc = "failed" /\ \E i \in 1..Len(events) : CannotNormalize(events[i])) =>
        /\ normalized = <<>>
        /\ err.kind = "ValueError"
        /\ err.about = <<events[FirstOffending(events)]>>

-----------------------------------------------------------------------------
(* The parser *)

AllArrays(contents) == \A i \in 1..Len(contents) : contents[i].kind = "array"
EventsOf(contents) == Concat([i \in 1..Len(contents) |-> contents[i].events])

\* the download loop stopped at a file it could not parse
ParserFailed ==
    /\ pc = "failed"
    /\ downloaded # <<>>
    /\ downloaded[Len(downloaded)].kind # "array"

\* download_and_parse_events returned
ParserReturned ==
    /\ downloaded # <<>>
    /\ Len(downloaded) = Len(eligible)
    /\ AllArrays(downloaded)

\* the kind normalize_events signals for a timestamp it cannot parse
NormalizerErrorKind ==
    normalize_events(<<Event(NotATimestamp("garbage"), "click")>>).err.kind

ParserErrorKinds ==
    /\ ParserFailed =>
          LET bad == downloaded[Len(downloaded)].kind
          IN  /\ AllArrays(SubSeq(downloaded, 1, Len(downloaded) - 1))
              /\ bad = "nonutf8" => err.kind = "UnicodeDecodeError"
              /\ bad = "badjson" => err.kind = "JSONDecodeError"
              /\ bad = "nonarray" => err.kind = "ValueError"
              /\ events = <<>>
    /\ ParserReturned => events = EventsOf(downloaded)

-----------------------------------------------------------------------------
(* Ordering of the stages *)

\* some file read so far cannot be parsed, or holds an event that cannot be
\* normalized
MalformedInput ==
    \/ ~AllArrays(downloaded)
    \/ \E i \in 1..Len(downloaded) :
          \E j \in 1..Len(downloaded[i].events) :
              CannotNormalize(downloaded[i].events[j])

\* C6: with a malformed file or event the run never reaches aggregation or
\* the writer, never completes, and issues no write: a file that cannot be
\* parsed fails the run at once, an event that cannot be normalized fails it
\* in the normalization step; and a write is issued only when every download
\* and the normalization of every event are over, none of which happens again
\* afterwards.
C6_NoWriteAfterMalformedInput ==
    /\ [](MalformedInput =>
            /\ pc \in {"download", "normalize", "failed"}
            /\ uploads = <<>>
            /\ store \subseteq {StaleDocument})
    /\ [](~AllArrays(downloaded) => pc = "failed")
    /\ [][MalformedInput /\ pc = "normalize" => pc' = "failed"]_vars
    /\ [][uploads' # uploads =>
            /\ Len(downloaded) = Len(eligible)
            /\ Len(normalized) = Len(EventsOf(downloaded))
            /\ downloaded' = downloaded
            /\ normalized' = normalized]_vars

\* a run of two files that failed in normalization, nothing written
C6_Witness ==
    /\ pc = "failed"
    /\ Len(downloaded) = 2
    /\ AllArrays(downloaded)
    /\ \E j \in 1..Len(downloaded[2].events) : CannotNormalize(downloaded[2].events[j])
    /\ downloaded[1].events # <<>>
    /\ uploads = <<>>

-----------------------------------------------------------------------------
(* The write loop *)

Groups == records_by_hour(aggregated)

\* the document of the last successful upload to a path
LastUploadTo(path) ==
    LET last == CHOOSE i \in 1..Len(uploads) :
                    /\ uploads[i].ok /\ uploads[i].path = path
                    /\ \A j \in (i + 1)..Len(uploads) :
                          ~(uploads[j].ok /\ uploads[j].path = path)
    IN  CsvDocument(Groups[uploads[last].group].records)

\* C10: the k-th upload is the only attempt for the k-th hour group; only the
\* last attempt can have failed, and when it has the run is over (failed) with
\* the store holding exactly what the earlier uploads put there; the failing
\* step itself leaves the store alone.
C10_FailedUploadEndsRun ==
    /\ [](/\ \A i \in 1..Len(uploads) : uploads[i].group = i
          /\ \A i \in 1..(Len(uploads) - 1) : uploads[i].ok
          /\ (uploads # <<>> /\ ~uploads[Len(uploads)].ok) =>
                /\ pc = "failed"
                /\ \A i \in 1..(Len(uploads) - 1) :
                      [path |-> uploads[i].path, doc |-> LastUploadTo(uploads[i].path)]
                          \in store)
    /\ [][(uploads' # uploads /\ ~uploads'[Len(uploads')].ok) => store' = store]_vars
    /\ [][pc = "failed" => store' = store /\ uploads' = uploads]_vars

\* three hour groups, the first written, the second failed, the third never tried
C10_Witness ==
    /\ pc = "failed"
    /\ Len(Groups) = 3
    /\ Len(uploads) = 2
    /\ uploads[1].ok /\ ~uploads[2].ok
    /\ \E e \in store : e.path = uploads[1].path

-----------------------------------------------------------------------------
(* The output of a run *)

WrittenPaths == {uploads[i].path : i \in 1..Len(uploads)}
WrittenDocuments == {e \in store : e.path \in WrittenPaths}
DataRows(e) == Tail(e.doc)

RECURSIVE StoredTotal(_)
StoredTotal(entries) ==
    IF entries = {} THEN 0
    ELSE LET e == CHOOSE x \in entries : TRUE
         IN  SumSeq([k \in 1..Len(DataRows(e)) |-> DataRows(e)[k][3]])
             + StoredTotal(entries \ {e})

\* C1: after a run that completed, every aggregate record is exactly one data
\* row of exactly one document at the paths the run wrote, the rows of one
\* document are of one hour, the stored totals add up to the number of events
\* parsed, and no two hour groups were written to the same path.
C1_CompletedRunOutputConsistent ==
    pc = "done" =>
        /\ \A i \in 1..Len(aggregated) :
              Cardinality({ek \in UNION {{<<e, k>> : k \in 1..Len(DataRows(e))} :
                                          e \in WrittenDocuments} :
                              DataRows(ek[1])[ek[2]] = CsvRow(aggregated[i])}) = 1
        /\ \A e \in WrittenDocuments :
              \A i, j \in 1..Len(aggregated) :
                  (/\ \E k \in 1..Len(DataRows(e)) : DataRows(e)[k] = CsvRow(aggregated[i])
                   /\ \E k \in 1..Len(DataRows(e)) : DataRows(e)[k] = CsvRow(aggregated[j]))
                  => DtEq(aggregated[i].hour, aggregated[j].hour)
        /\ StoredTotal(WrittenDocuments) = Len(events)
        /\ \A i, j \in 1..Len(uploads) : i # j => uploads[i].path # uploads[j].path

\* the path spelled from the UTC calendar fields of an instant
UtcPath(hour) ==
    LET u == AsUtc(hour)
    IN  <<"summaries", Pad4(u.y), Pad2(u.mo), Pad2(u.d), "hour=", Pad2(u.h), "summary.csv">>

\* C3: the writer issues one write per distinct hour and no other, and the
\* write for hour h goes to summaries/YYYY/MM/DD/hour=HH/summary.csv with the
\* zero-padded UTC calendar fields of the instant h.
C3_OneWritePerHourAtUtcPath ==
    /\ \A i \in 1..Len(uploads) : uploads[i].path = UtcPath(Groups[uploads[i].group].hour)
    /\ \A i, j \in 1..Len(uploads) :
          i # j => ~DtEq(Groups[uploads[i].group].hour, Groups[uploads[j].group].hour)
    /\ pc = "done" =>
          Len(uploads) = Cardinality({UtcMinutes(aggregated[i].hour) : i \in 1..Len(aggregated)})

\* what a run on the events evs, every upload succeeding, leaves at the paths
\* it writes: path and set of data rows
RECURSIVE WriteAll(_, _)
WriteAll(groups, st) ==
    IF groups = <<>> THEN st
    ELSE WriteAll(Tail(groups),
                  Upsert(st, OutputPath(Head(groups).hour), CsvDocument(Head(groups).records)))
RowSets(entries) ==
    {[path |-> e.path, rows |-> {DataRows(e)[k] : k \in 1..Len(DataRows(e))}] : e \in entries}
RunOutput(evs) ==
    RowSets(WriteAll(records_by_hour(aggregate_events(normalize_events(evs).value)), {}))

Orders(n) == {p \in [1..n -> 1..n] : \A i, j \in 1..n : i # j => p[i] # p[j]}

\* C9: a completed run's output (paths written, set of rows at each) is the
\* output of a run on the same events in any other order.
C9_OutputIndependentOfOrder ==
    pc = "done" =>
        \A p \in Orders(Len(events)) :
            RunOutput([i \in 1..Len(events) |-> events[p[i]]]) = RowSets(WrittenDocuments)

=============================================================================
